---- MODULE Spec2Model ----
(***************************************************************************)
(* Model of the nullable column library of boost::numeric::ublas::df:      *)
(*   optional_operator.hpp  operators lifted over std::optional<T>         *)
(*   column.hpp             column<T> and column_ref<T>                    *)
(*                                                                         *)
(* The element type T is a template parameter.  The model instantiates it  *)
(* at a signed two's-complement integer of TBits bits (int8_t for          *)
(* TBits = 8): the functors std::plus<T> ... return T, so the promoted     *)
(* int result is converted back to T and wraps; the only undefined         *)
(* operations left are / and % by zero.                                    *)
(*                                                                         *)
(* An std::optional<T> is the empty sequence (no value) or <<v>>.          *)
(***************************************************************************)
EXTENDS Integers, Sequences, FiniteSets, TLC

VARIABLES
    lhs,    \* left operand of the optional expression under evaluation
    rhs,    \* right operand (the operand, for a unary operator)
    out,    \* the last optional expression evaluated and its result
    buf,    \* heap buffers of the std::vector content_ members
    data,   \* column object -> its buffer (0: the object is not constructed)
    call,   \* the last column member call and what it returned
    opres,  \* the last column operator applied and the column it returned
    ref     \* the element reference held: the column and index it is bound to

vars == <<lhs, rhs, out, buf, data, call, opres, ref>>

----------------------------------------------------------------------------
(* Bounds *)

TBits == 8      \* width of the element type T
MaxVal == 2     \* plain values -MaxVal..MaxVal are drawn beside T's extremes
MaxLen == 2     \* longest sequence a column is constructed from
MaxCopyLen == 1 \* longest sequence the column that gets copied is constructed from

----------------------------------------------------------------------------
(* The element type T and its conversions *)

TMax == 2 ^ (TBits - 1) - 1
TMin == -(2 ^ (TBits - 1))

\* conversion of an int to T (modulo 2^TBits)
WrapT(x) == ((x + 2 ^ (TBits - 1)) % (2 ^ TBits)) - 2 ^ (TBits - 1)

\* boolean conversion of a T, and integral conversion of a bool
TToBool(x) == x /= 0
BoolToT(b) == IF b THEN 1 ELSE 0

Abs(x) == IF x < 0 THEN -x ELSE x

\* built-in integer division truncates toward zero; % takes the dividend's sign
TruncDiv(x, y) ==
    IF (x >= 0) = (y > 0) THEN Abs(x) \div Abs(y) ELSE -(Abs(x) \div Abs(y))
TruncRem(x, y) == x - y * TruncDiv(x, y)

TVals == (-MaxVal .. MaxVal) \cup {TMin, TMax}

----------------------------------------------------------------------------
(* std::optional<T> *)

nullopt == << >>
optional_type(v) == <<v>>
has_value(o) == Len(o) = 1
value(o) == o[1]

OptVals == {nullopt} \cup {optional_type(v) : v \in TVals}

----------------------------------------------------------------------------
(* The function objects handed to the helpers as std::function<TOut(TIn..)> *)

ArithOps == {"+", "-", "*", "/", "%"}
UnaryOps == {"+", "-", "~", "!"}

\* std::plus, minus, multiplies, divides, modulus <T>; std::equal_to<T>
func2(op, x, y) ==
    CASE op = "+" -> WrapT(x + y)
      [] op = "-" -> WrapT(x - y)
      [] op = "*" -> WrapT(x * y)
      [] op = "/" -> WrapT(TruncDiv(x, y))
      [] op = "%" -> WrapT(TruncRem(x, y))
      [] op = "==" -> (x = y)

\* [](T x) { return +x; }, std::negate, std::bit_not, std::logical_not <T>
func1(op, x) ==
    CASE op = "+" -> WrapT(x)
      [] op = "-" -> WrapT(-x)
      [] op = "~" -> WrapT(-x - 1)
      [] op = "!" -> (x = 0)

\* the built-in / and % are undefined on a zero divisor
Undefined2(op, x, y) == op \in {"/", "%"} /\ y = 0

----------------------------------------------------------------------------
(* Helper functions operator_ of optional_operator.hpp *)

\* operator_unary reading the operand without the has_value test (value_or)
operator_unary_unchecked(r, op) ==
    optional_type(func1(op, IF has_value(r) THEN value(r) ELSE 0))

\* (1) `op` std::optional<T>
operator_unary(r, op) ==
    IF has_value(r) THEN optional_type(func1(op, value(r))) ELSE nullopt

\* operator_T_opt handing the operands to func in the wrong order
operator_T_opt_swapped(l, r, op) ==
    IF has_value(r) THEN optional_type(func2(op, value(r), l)) ELSE nullopt

\* (1) T `op` std::optional<T>
operator_T_opt(l, r, op) ==
    IF has_value(r) THEN optional_type(func2(op, l, value(r))) ELSE nullopt

\* (2) std::optional<T> `op` T: the plain operand is bound to `const TOut &`,
\* so it is converted to TOut, and converted to TIn again when func is called
RhsAsTOut(r, TOut) == IF TOut = "bool" THEN BoolToT(TToBool(r)) ELSE r

operator_opt_T(l, r, op, TOut) ==
    IF has_value(l)
        THEN optional_type(func2(op, value(l), RhsAsTOut(r, TOut)))
        ELSE nullopt

\* (3) std::optional<T> `op` std::optional<T>
operator_opt_opt(l, r, op) ==
    IF has_value(l) /\ has_value(r)
        THEN optional_type(func2(op, value(l), value(r)))
        ELSE nullopt

\* whether the helper the overload resolves to reaches func on a zero divisor
operator_undefined(l, r, op) ==
    CASE l.kind = "T" /\ r.kind = "opt" ->
            has_value(r.o) /\ Undefined2(op, l.v, value(r.o))
      [] l.kind = "opt" /\ r.kind = "T" ->
            has_value(l.o) /\ Undefined2(op, value(l.o), r.v)
      [] l.kind = "opt" /\ r.kind = "opt" ->
            has_value(l.o) /\ has_value(r.o)
                /\ Undefined2(op, value(l.o), value(r.o))
      [] OTHER -> FALSE

----------------------------------------------------------------------------
(* Operands of an expression: a plain T, an optional, or std::nullopt *)

PlainOperand(v) == [kind |-> "T", v |-> v, o |-> nullopt]
OptOperand(o) == [kind |-> "opt", v |-> 0, o |-> o]
NulloptOperand == [kind |-> "nullopt", v |-> 0, o |-> nullopt]

Operands ==
    {PlainOperand(v) : v \in TVals} \cup {OptOperand(o) : o \in OptVals}
        \cup {NulloptOperand}

\* the five operand shapes the binary operators are overloaded for
Overloaded(l, r) ==
    \/ l.kind = "T" /\ r.kind = "opt"
    \/ l.kind = "opt" /\ r.kind = "T"
    \/ l.kind = "opt" /\ r.kind = "opt"
    \/ l.kind = "opt" /\ r.kind = "nullopt"
    \/ l.kind = "nullopt" /\ r.kind = "opt"

----------------------------------------------------------------------------
(* Operator overloads of optional_operator.hpp *)

\* unary + - ~ ! on std::optional<T>
operator_un(op, r) == operator_unary(r, op)

\* binary + - * / % in the five shapes
operator_arith(op, l, r) ==
    CASE l.kind = "T" /\ r.kind = "opt" -> operator_T_opt(l.v, r.o, op)
      [] l.kind = "opt" /\ r.kind = "T" -> operator_opt_T(l.o, r.v, op, "T")
      [] l.kind = "opt" /\ r.kind = "opt" -> operator_opt_opt(l.o, r.o, op)
      [] l.kind = "opt" /\ r.kind = "nullopt" -> nullopt
      [] l.kind = "nullopt" /\ r.kind = "opt" -> nullopt

\* operator== without the special case for two absent optionals
operator_eq_general(l, r) ==
    CASE l.kind = "T" /\ r.kind = "opt" -> operator_T_opt(l.v, r.o, "==")
      [] l.kind = "opt" /\ r.kind = "T" ->
            operator_opt_T(l.o, r.v, "==", "bool")
      [] l.kind = "opt" /\ r.kind = "opt" -> operator_opt_opt(l.o, r.o, "==")
      [] l.kind = "opt" /\ r.kind = "nullopt" -> optional_type(~has_value(l.o))
      [] l.kind = "nullopt" /\ r.kind = "opt" -> optional_type(~has_value(r.o))

\* operator== in the five shapes
operator_eq(l, r) ==
    CASE l.kind = "T" /\ r.kind = "opt" -> operator_T_opt(l.v, r.o, "==")
      [] l.kind = "opt" /\ r.kind = "T" ->
            operator_opt_T(l.o, r.v, "==", "bool")
      [] l.kind = "opt" /\ r.kind = "opt" ->
            IF ~has_value(l.o) /\ ~has_value(r.o)
                THEN optional_type(TRUE)
                ELSE operator_opt_opt(l.o, r.o, "==")
      [] l.kind = "opt" /\ r.kind = "nullopt" -> optional_type(~has_value(l.o))
      [] l.kind = "nullopt" /\ r.kind = "opt" -> optional_type(~has_value(r.o))

----------------------------------------------------------------------------
(* Evaluation of one optional expression *)

NoOut == [op |-> "none", arity |-> 0, ub |-> FALSE, res |-> nullopt]

\* lhs `op` rhs, op one of + - * / %
EvalArith(op) ==
    /\ out = NoOut
    /\ Overloaded(lhs, rhs)
    /\ IF operator_undefined(lhs, rhs, op)
          THEN \E o \in OptVals :
                  out' = [op |-> op, arity |-> 2, ub |-> TRUE, res |-> o]
          ELSE out' = [op |-> op, arity |-> 2, ub |-> FALSE,
                       res |-> operator_arith(op, lhs, rhs)]
    /\ UNCHANGED <<lhs, rhs, buf, data, call, opres, ref>>

\* lhs == rhs
EvalEq ==
    /\ out = NoOut
    /\ Overloaded(lhs, rhs)
    /\ out' = [op |-> "==", arity |-> 2, ub |-> FALSE,
               res |-> operator_eq(lhs, rhs)]
    /\ UNCHANGED <<lhs, rhs, buf, data, call, opres, ref>>

\* `op` rhs, op one of + - ~ !
EvalUnary(op) ==
    /\ out = NoOut
    /\ rhs.kind = "opt"
    /\ out' = [op |-> op, arity |-> 1, ub |-> FALSE,
               res |-> operator_un(op, rhs.o)]
    /\ UNCHANGED <<lhs, rhs, buf, data, call, opres, ref>>

NoCall == [name |-> "none", col |-> "A", idx |-> 0, val |-> 0, ret |-> TRUE]
NoRef == [col |-> "none", idx |-> 0]
NoOpres == [name |-> "none", op |-> "none", col |-> "A", x |-> "none",
            res |-> [content |-> << >>, cap |-> 0]]

InitAlg ==
    /\ lhs \in Operands
    /\ rhs \in Operands
    /\ out = NoOut
    /\ buf = << >>
    /\ data = << >>
    /\ call = NoCall
    /\ opres = NoOpres
    /\ ref = NoRef

NextAlg ==
    \/ \E op \in ArithOps : EvalArith(op)
    \/ EvalEq
    \/ \E op \in UnaryOps : EvalUnary(op)

SpecAlg == InitAlg /\ [][NextAlg]_vars

----------------------------------------------------------------------------
(* std::vector<optional_type>, the type of column::content_ *)

\* stands for size_t's largest value, 2^64 - 1, which TLC's integers cannot
\* hold; only its order relative to the sizes matters
SIZE_MAX == 2147483647

\* conversion of a signed index to size_t
ToSizeT(i) == IF i < 0 THEN SIZE_MAX + (i + 1) ELSE i

vector_empty == [content |-> << >>, cap |-> 0]

vector_size(v) == Len(v.content)

\* reserve reallocating to exactly n elements, whatever the capacity was
vector_reserve_exact(v, n) == [v EXCEPT !.cap = n]

vector_reserve(v, n) == IF n > v.cap THEN [v EXCEPT !.cap = n] ELSE v

\* push_back / emplace_back: the buffer grows (doubling) only when it is full
vector_push_back(v, e) ==
    [content |-> Append(v.content, e),
     cap |-> IF Len(v.content) < v.cap THEN v.cap
             ELSE IF v.cap = 0 THEN 1 ELSE 2 * v.cap]

\* copy construction allocates a buffer of its own for the elements
vector_copy(v) == [content |-> v.content, cap |-> Len(v.content)]

vector_clear(v) == [v EXCEPT !.content = << >>]

\* std::fill(begin, end, x)
vector_fill(v, x) == [v EXCEPT !.content = [j \in 1 .. Len(v.content) |-> x]]

----------------------------------------------------------------------------
(* column<T> *)

Cols == {"A", "B"}

\* values a column is constructed from and written with
ElemVals == {0, -3}
ElemOpts == {nullopt} \cup {optional_type(v) : v \in ElemVals}

\* indices handed to the members: in range, one past MaxLen, and -1 as size_t
Indexes == (0 .. MaxLen) \cup {ToSizeT(-1)}

RECURSIVE SeqsUpTo(_, _)
SeqsUpTo(S, n) ==
    IF n = 0 THEN {<< >>}
    ELSE LET shorter == SeqsUpTo(S, n - 1) IN
         shorter \cup {Append(q, x) : q \in {t \in shorter : Len(t) = n - 1},
                                      x \in S}

\* test_index_ comparing against size - 1
test_index_off_by_one(v, index) == index < vector_size(v) - 1

test_index_(v, index) == index < vector_size(v)

\* empty() and capacity()
column_empty(v) == Len(v.content) = 0
column_capacity(v) == v.cap

at(v, index) ==
    IF test_index_(v, index) THEN v.content[index + 1] ELSE nullopt

\* column(T list), list a sequence of plain values: the loop of emplace_back
RECURSIVE emplace_values(_, _, _)
emplace_values(v, list, k) ==
    IF k > Len(list) THEN v
    ELSE emplace_values(vector_push_back(v, optional_type(list[k])), list, k + 1)

column_of_values(list) ==
    emplace_values(vector_reserve(vector_empty, Len(list)), list, 1)

\* column(T list), list a vector of optionals: optional_type(element) copies
RECURSIVE emplace_optionals(_, _, _)
emplace_optionals(v, list, k) ==
    IF k > Len(list) THEN v
    ELSE emplace_optionals(vector_push_back(v, list[k]), list, k + 1)

column_of_optionals(list) ==
    emplace_optionals(vector_reserve(vector_empty, Len(list)), list, 1)

\* set(index, value): the column afterwards (the return value is test_index_)
column_set(v, index, x) ==
    IF test_index_(v, index)
        THEN [v EXCEPT !.content[index + 1] = optional_type(x)]
        ELSE v

\* reset(index) leaving a value-initialised element instead of no value
column_reset_to_zero(v, index) ==
    IF test_index_(v, index)
        THEN [v EXCEPT !.content[index + 1] = optional_type(0)]
        ELSE v

\* reset(index), and set(index, std::nullopt) which forwards to it
column_reset(v, index) ==
    IF test_index_(v, index)
        THEN [v EXCEPT !.content[index + 1] = nullopt]
        ELSE v

\* operator=(element_type) overwriting only the slots that hold a value
column_assign_present_only(v, x) ==
    [v EXCEPT !.content =
        [j \in 1 .. Len(v.content) |->
            IF has_value(v.content[j]) THEN optional_type(x) ELSE nullopt]]

\* operator=(element_type) and operator=(std::nullopt_t)
column_assign(v, x) == vector_fill(v, optional_type(x))
column_assign_nullopt(v) == vector_fill(v, nullopt)

\* the copy sharing the buffer of the column it is made from
copy_buffer_shared(src, fresh) == src

\* the implicit copy constructor: content_ is copied into a buffer of its own
copy_buffer(src, fresh) == fresh

----------------------------------------------------------------------------
(* Column member calls *)

Called(name, c, index, x, ret) ==
    [name |-> name, col |-> c, idx |-> index, val |-> x, ret |-> ret]

Constructed(c) == data[c] /= 0
Buf(c) == buf[data[c]]

AlgIdle == UNCHANGED <<lhs, rhs, out, opres, ref>>

\* column<T> B(A)
CopyConstruct ==
    /\ Constructed("A") /\ ~Constructed("B")
    /\ LET fresh == 2
           target == copy_buffer(data["A"], fresh) IN
       /\ buf' = [buf EXCEPT ![fresh] = vector_copy(buf[data["A"]])]
       /\ data' = [data EXCEPT !["B"] = target]
    /\ call' = Called("copy", "B", 0, 0, TRUE)
    /\ AlgIdle

At(c, index) ==
    /\ Constructed(c)
    /\ call' = Called("at", c, index, 0, at(Buf(c), index))
    /\ UNCHANGED <<buf, data>>
    /\ AlgIdle

Set(c, index, x) ==
    /\ Constructed(c)
    /\ buf' = [buf EXCEPT ![data[c]] = column_set(Buf(c), index, x)]
    /\ call' = Called("set", c, index, x, test_index_(Buf(c), index))
    /\ UNCHANGED data
    /\ AlgIdle

SetNullopt(c, index) ==
    /\ Constructed(c)
    /\ buf' = [buf EXCEPT ![data[c]] = column_reset(Buf(c), index)]
    /\ call' = Called("set_nullopt", c, index, 0, test_index_(Buf(c), index))
    /\ UNCHANGED data
    /\ AlgIdle

Reset(c, index) ==
    /\ Constructed(c)
    /\ buf' = [buf EXCEPT ![data[c]] = column_reset(Buf(c), index)]
    /\ call' = Called("reset", c, index, 0, test_index_(Buf(c), index))
    /\ UNCHANGED data
    /\ AlgIdle

\* col[index] = x: the element reference forwards to set, dropping its result
RefAssign(c, index, x) ==
    /\ Constructed(c)
    /\ buf' = [buf EXCEPT ![data[c]] = column_set(Buf(c), index, x)]
    /\ call' = Called("ref_assign", c, index, x, TRUE)
    /\ UNCHANGED data
    /\ AlgIdle

\* col[index] = std::nullopt: the element reference forwards to reset
RefAssignNullopt(c, index) ==
    /\ Constructed(c)
    /\ buf' = [buf EXCEPT ![data[c]] = column_reset(Buf(c), index)]
    /\ call' = Called("ref_assign_nullopt", c, index, 0, TRUE)
    /\ UNCHANGED data
    /\ AlgIdle

\* col = x
Assign(c, x) ==
    /\ Constructed(c)
    /\ buf' = [buf EXCEPT ![data[c]] = column_assign(Buf(c), x)]
    /\ call' = Called("assign", c, 0, x, TRUE)
    /\ UNCHANGED data
    /\ AlgIdle

\* col = std::nullopt
AssignNullopt(c) ==
    /\ Constructed(c)
    /\ buf' = [buf EXCEPT ![data[c]] = column_assign_nullopt(Buf(c))]
    /\ call' = Called("assign_nullopt", c, 0, 0, TRUE)
    /\ UNCHANGED data
    /\ AlgIdle

Reserve(c, n) ==
    /\ Constructed(c)
    /\ buf' = [buf EXCEPT ![data[c]] = vector_reserve(Buf(c), n)]
    /\ call' = Called("reserve", c, n, 0, TRUE)
    /\ UNCHANGED data
    /\ AlgIdle

\* shrink_to_fit is a non-binding request: the capacity drops to the size or
\* stays as it is
ShrinkToFit(c) ==
    /\ Constructed(c)
    /\ \E newcap \in {vector_size(Buf(c)), Buf(c).cap} :
          buf' = [buf EXCEPT ![data[c]].cap = newcap]
    /\ call' = Called("shrink_to_fit", c, 0, 0, TRUE)
    /\ UNCHANGED data
    /\ AlgIdle

Clear(c) ==
    /\ Constructed(c)
    /\ buf' = [buf EXCEPT ![data[c]] = vector_clear(Buf(c))]
    /\ call' = Called("clear", c, 0, 0, TRUE)
    /\ UNCHANGED data
    /\ AlgIdle

\* column<T> A(list): A is constructed from a list of at most n values, B
\* is not constructed yet
InitFrom(n) ==
    /\ lhs = NulloptOperand
    /\ rhs = NulloptOperand
    /\ out = NoOut
    /\ opres = NoOpres
    /\ ref = NoRef
    /\ \E list \in SeqsUpTo(ElemVals, n) :
          /\ buf = <<column_of_values(list), vector_empty>>
          /\ call = Called("column", "A", 0, list, TRUE)
    /\ data = [c \in Cols |-> IF c = "A" THEN 1 ELSE 0]

\* the calls that write to column c
Mutate(c) ==
    \/ \E index \in Indexes, x \in ElemVals : Set(c, index, x)
    \/ \E index \in Indexes : SetNullopt(c, index)
    \/ \E index \in Indexes : Reset(c, index)
    \/ \E index \in Indexes, x \in ElemVals : RefAssign(c, index, x)
    \/ \E index \in Indexes : RefAssignNullopt(c, index)
    \/ \E x \in ElemVals : Assign(c, x)
    \/ AssignNullopt(c)
    \/ \E n \in 0 .. MaxLen + 1 : Reserve(c, n)
    \/ ShrinkToFit(c)
    \/ Clear(c)

(* One column, read and written in any order *)

Init == InitFrom(MaxLen)

Next ==
    \/ \E index \in Indexes : At("A", index)
    \/ Mutate("A")

Spec == Init /\ [][Next]_vars

(* A column and its copy, both written in any order *)

InitCopy == InitFrom(MaxCopyLen)

NextCopy ==
    \/ CopyConstruct
    \/ \E c \in Cols : Mutate(c)

SpecCopy == InitCopy /\ [][NextCopy]_vars

----------------------------------------------------------------------------
(* Element-wise operators of column<T> *)

\* plain scalars a column is multiplied with
ScalarVals == {-1, TMax}

ColScalars ==
    {PlainOperand(v) : v \in ScalarVals}
        \cup {OptOperand(optional_type(v)) : v \in ScalarVals}
        \cup {OptOperand(nullopt), NulloptOperand}

Max(a, b) == IF a >= b THEN a ELSE b

\* the lambdas handed to operator_ as std::function<optional<TOut>(optional_type)>
\*   [](auto x) { return `op` x; }
\*   [value](auto x) { return x * value; }   [value](auto x) { return value * x; }
\*   [](auto) { return std::nullopt; }
UnaryLambda(op) == [kind |-> "unary", op |-> op, x |-> NulloptOperand]
TimesValueLambda(x) == [kind |-> "x*value", op |-> "*", x |-> x]
ValueTimesLambda(x) == [kind |-> "value*x", op |-> "*", x |-> x]
NulloptLambda == [kind |-> "nullopt", op |-> "*", x |-> NulloptOperand]

apply_lambda(f, element) ==
    CASE f.kind = "unary" -> operator_un(f.op, element)
      [] f.kind = "x*value" -> operator_arith("*", OptOperand(element), f.x)
      [] f.kind = "value*x" -> operator_arith("*", f.x, OptOperand(element))
      [] f.kind = "nullopt" -> nullopt

\* for (const auto& element: content_) content.push_back(func(element));
RECURSIVE push_each(_, _, _, _)
push_each(content, elements, f, k) ==
    IF k > Len(elements) THEN content
    ELSE push_each(vector_push_back(content, apply_lambda(f, elements[k])),
                   elements, f, k + 1)

\* the loop leaving out the elements that hold no value
RECURSIVE push_each_present(_, _, _, _)
push_each_present(content, elements, f, k) ==
    IF k > Len(elements) THEN content
    ELSE push_each_present(
             IF has_value(elements[k])
                 THEN vector_push_back(content, apply_lambda(f, elements[k]))
                 ELSE content,
             elements, f, k + 1)

\* operator_ on one column, leaving out the elements that hold no value
column_operator_1_present_only(v, f) ==
    column_of_optionals(
        push_each_present(vector_reserve(vector_empty, vector_size(v)),
                          v.content, f, 1).content)

\* operator_ for unary operations and binary operations with one column only
column_operator_1(v, f) ==
    column_of_optionals(
        push_each(vector_reserve(vector_empty, vector_size(v)),
                  v.content, f, 1).content)

\* for (int i = 0; i < size; ++i) content.push_back(func(at(i), rhs.at(i)));
\* func is [](auto x, auto y) { return x * y; }
RECURSIVE push_pairs(_, _, _, _, _)
push_pairs(content, l, r, i, size) ==
    IF ~(i < size) THEN content
    ELSE push_pairs(
             vector_push_back(content,
                 operator_arith("*", OptOperand(at(l, ToSizeT(i))),
                                     OptOperand(at(r, ToSizeT(i))))),
             l, r, i + 1, size)

\* operator_ on two columns sized by the left column alone
column_operator_2_lhs_size(l, r) ==
    LET size == vector_size(l) IN
    column_of_optionals(
        push_pairs(vector_reserve(vector_empty, size), l, r, 0, size).content)

\* operator_ for binary operations with two columns
column_operator_2(l, r) ==
    LET size == Max(vector_size(l), vector_size(r)) IN
    column_of_optionals(
        push_pairs(vector_reserve(vector_empty, size), l, r, 0, size).content)

Applied(name, op, c, x, res) ==
    [name |-> name, op |-> op, col |-> c, x |-> x, res |-> res]

OpsIdle == UNCHANGED <<lhs, rhs, out, buf, data, call, ref>>

\* `op` col
ColUnary(op, c) ==
    /\ opres.name = "none"
    /\ opres' = Applied("unary", op, c, "none",
                        column_operator_1(Buf(c), UnaryLambda(op)))
    /\ OpsIdle

\* c * d, both columns
ColTimesCol(c, d) ==
    /\ opres.name = "none"
    /\ opres' = Applied("col*col", "*", c, d, column_operator_2(Buf(c), Buf(d)))
    /\ OpsIdle

\* c * x, x a plain value, an optional or std::nullopt
ColTimesScalar(c, x) ==
    /\ opres.name = "none"
    /\ opres' = Applied("col*x", "*", c, x,
                    column_operator_1(Buf(c),
                        IF x.kind = "nullopt" THEN NulloptLambda
                                              ELSE TimesValueLambda(x)))
    /\ OpsIdle

\* x * c, x a plain value, an optional or std::nullopt
ScalarTimesCol(x, c) ==
    /\ opres.name = "none"
    /\ opres' = Applied("x*col", "*", c, x,
                    column_operator_1(Buf(c),
                        IF x.kind = "nullopt" THEN NulloptLambda
                                              ELSE ValueTimesLambda(x)))
    /\ OpsIdle

\* two columns, each constructed from a list, some of their slots reset since
InitOps ==
    /\ lhs = NulloptOperand
    /\ rhs = NulloptOperand
    /\ out = NoOut
    /\ opres = NoOpres
    /\ ref = NoRef
    /\ call = NoCall
    /\ \E a \in SeqsUpTo(ElemOpts, MaxLen), b \in SeqsUpTo(ElemOpts, MaxLen) :
          buf = <<[content |-> a, cap |-> Len(a)], [content |-> b, cap |-> Len(b)]>>
    /\ data = [c \in Cols |-> IF c = "A" THEN 1 ELSE 2]

NextOps ==
    \/ \E op \in UnaryOps, c \in Cols : ColUnary(op, c)
    \/ \E c \in Cols, d \in Cols : ColTimesCol(c, d)
    \/ \E c \in Cols, x \in ColScalars : ColTimesScalar(c, x)
    \/ \E c \in Cols, x \in ColScalars : ScalarTimesCol(x, c)

SpecOps == InitOps /\ [][NextOps]_vars

----------------------------------------------------------------------------
(* column_ref<T>: the element reference col[index] *)

\* column_ref(col, index): the column is held by reference, the index by value
column_ref(c, index) == [col |-> c, idx |-> index]

\* the read falling back on the last element when the index is out of range
column_ref_get_clamped(v, index) ==
    IF test_index_(v, index) THEN v.content[index + 1]
    ELSE IF vector_size(v) > 0 THEN v.content[vector_size(v)] ELSE nullopt

\* this->column_.at(this->index_), evaluated when the reference is used
column_ref_get(v, index) == at(v, index)

column_ref_has_value(v, index) == has_value(column_ref_get(v, index))

\* operator_ for operations on one column reference
column_ref_operator_1(v, index, f) == apply_lambda(f, column_ref_get(v, index))

\* operator_ for two column references, func [](auto x, auto y) { return x * y; }
column_ref_operator_2(l, lindex, r, rindex) ==
    operator_arith("*", OptOperand(column_ref_get(l, lindex)),
                        OptOperand(column_ref_get(r, rindex)))

\* the assignment appending to the column when the index is one past its end
column_ref_assign_growing(v, index, x) ==
    IF index = vector_size(v) THEN vector_push_back(v, optional_type(x))
    ELSE column_set(v, index, x)

\* operator=(element_type): this->column_.set(this->index_, value)
column_ref_assign(v, index, x) == column_set(v, index, x)

\* operator=(std::nullopt_t): this->column_.reset(this->index_)
column_ref_assign_nullopt(v, index) == column_reset(v, index)

Bound == ref.col /= "none"
RefBuf == buf[data[ref.col]]

RefIdle == UNCHANGED <<lhs, rhs, out, opres, buf, data, ref>>

\* auto r = col[index]
Subscript(c, index) ==
    /\ Constructed(c)
    /\ ref' = column_ref(c, index)
    /\ call' = Called("subscript", c, index, 0, TRUE)
    /\ UNCHANGED <<lhs, rhs, out, opres, buf, data>>

\* r.has_value()
RefHasValue ==
    /\ Bound
    /\ call' = Called("ref_has_value", ref.col, ref.idx, 0,
                      column_ref_has_value(RefBuf, ref.idx))
    /\ RefIdle

\* `op` r
RefUnary(op) ==
    /\ Bound
    /\ call' = Called("ref_unary", ref.col, ref.idx, op,
                      column_ref_operator_1(RefBuf, ref.idx, UnaryLambda(op)))
    /\ RefIdle

\* r * x, x a plain value, an optional or std::nullopt
RefTimesScalar(x) ==
    /\ Bound
    /\ call' = Called("ref*x", ref.col, ref.idx, x,
                      column_ref_operator_1(RefBuf, ref.idx,
                          IF x.kind = "nullopt" THEN NulloptLambda
                                                ELSE TimesValueLambda(x)))
    /\ RefIdle

\* x * r, x a plain value, an optional or std::nullopt
ScalarTimesRef(x) ==
    /\ Bound
    /\ call' = Called("x*ref", ref.col, ref.idx, x,
                      column_ref_operator_1(RefBuf, ref.idx,
                          IF x.kind = "nullopt" THEN NulloptLambda
                                                ELSE ValueTimesLambda(x)))
    /\ RefIdle

\* r * col[index], the second reference bound where it is used
RefTimesRef(index) ==
    /\ Bound
    /\ LET other == column_ref(ref.col, index) IN
       call' = Called("ref*ref", ref.col, ref.idx, index,
                      column_ref_operator_2(RefBuf, ref.idx,
                                            buf[data[other.col]], other.idx))
    /\ RefIdle

\* r = x
RefWrite(x) ==
    /\ Bound
    /\ buf' = [buf EXCEPT ![data[ref.col]] =
                  column_ref_assign(RefBuf, ref.idx, x)]
    /\ call' = Called("ref_write", ref.col, ref.idx, x, TRUE)
    /\ UNCHANGED <<lhs, rhs, out, opres, data, ref>>

\* r = std::nullopt
RefWriteNullopt ==
    /\ Bound
    /\ buf' = [buf EXCEPT ![data[ref.col]] =
                  column_ref_assign_nullopt(RefBuf, ref.idx)]
    /\ call' = Called("ref_write_nullopt", ref.col, ref.idx, 0, TRUE)
    /\ UNCHANGED <<lhs, rhs, out, opres, data, ref>>

(* One column and a reference into it, held across the column's writes *)

InitRef == InitFrom(MaxLen)

NextRef ==
    \/ \E index \in Indexes : Subscript("A", index)
    \/ Mutate("A")
    \/ RefHasValue
    \/ \E op \in UnaryOps : RefUnary(op)
    \/ \E x \in ColScalars : RefTimesScalar(x)
    \/ \E x \in ColScalars : ScalarTimesRef(x)
    \/ \E index \in Indexes : RefTimesRef(index)
    \/ \E x \in ElemVals : RefWrite(x)
    \/ RefWriteNullopt

SpecRef == InitRef /\ [][NextRef]_vars

----------------------------------------------------------------------------
(* Properties of the optional-value operator algebra (under SpecAlg) *)

\* an operand that can be absent is present; the nullopt literal never is
Present(x) ==
    CASE x.kind = "T" -> TRUE
      [] x.kind = "opt" -> has_value(x.o)
      [] x.kind = "nullopt" -> FALSE
Val(x) == IF x.kind = "T" THEN x.v ELSE value(x.o)

InT(v) == v \in TMin .. TMax
Congruent(v, w) == (v - w) % (2 ^ TBits) = 0

\* v is the built-in result of a `op` b, converted to T
IsNative(op, a, b, v) ==
    /\ InT(v)
    /\ CASE op = "+" -> Congruent(v, a + b)
         [] op = "-" -> Congruent(v, a - b)
         [] op = "*" -> Congruent(v, a * b)
         [] op \in {"/", "%"} ->
              \E q \in -(2 ^ TBits) .. 2 ^ TBits :
                  LET r == a - q * b IN
                  /\ Abs(r) < Abs(b)
                  /\ r = 0 \/ (r < 0) = (a < 0)
                  /\ Congruent(v, IF op = "/" THEN q ELSE r)

\* C1: a binary arithmetic operator in any of the five operand shapes yields
\* a present result exactly when every optional operand is present and no
\* operand is the nullopt literal; the present result holds the built-in
\* result of the two values (for / and % with a non-zero divisor); every
\* other result is absent.
C1_ArithmeticPropagation ==
    (out.arity = 2 /\ out.op \in ArithOps) =>
        IF Present(lhs) /\ Present(rhs)
            THEN \/ out.op \in {"/", "%"} /\ Val(rhs) = 0
                 \/ /\ has_value(out.res)
                    /\ IsNative(out.op, Val(lhs), Val(rhs), value(out.res))
            ELSE out.res = nullopt

\* T `/` optional with both values present, the quotient wrapping in T
C1_Witness ==
    /\ out.op = "/" /\ out.arity = 2
    /\ lhs = PlainOperand(TMin)
    /\ rhs = OptOperand(optional_type(-1))
    /\ out.res = optional_type(TMin)

\* C2: optional == optional is present(true) for two absent operands, absent
\* when exactly one is absent, present(x = y) for present(x) and present(y);
\* an absent optional compared with the nullopt literal, on either side, is
\* present(true).
C2_OptionalEquality ==
    (out.arity = 2 /\ out.op = "==") =>
        /\ (lhs.kind = "opt" /\ rhs.kind = "opt") =>
              out.res =
                  CASE ~has_value(lhs.o) /\ ~has_value(rhs.o) ->
                          optional_type(TRUE)
                    [] has_value(lhs.o) /\ has_value(rhs.o) ->
                          optional_type(value(lhs.o) = value(rhs.o))
                    [] OTHER -> nullopt
        /\ (lhs.kind = "opt" /\ rhs.kind = "nullopt" /\ ~has_value(lhs.o)) =>
              out.res = optional_type(TRUE)
        /\ (lhs.kind = "nullopt" /\ rhs.kind = "opt" /\ ~has_value(rhs.o)) =>
              out.res = optional_type(TRUE)

\* absent == absent has been evaluated to present(true)
C2_Witness ==
    /\ out.op = "==" /\ out.arity = 2
    /\ lhs = OptOperand(nullopt)
    /\ rhs = OptOperand(nullopt)
    /\ out.res = optional_type(TRUE)

\* C3: equality of an optional and a plain value, in both operand orders, is
\* present(x = y) for present(x) and y, and absent for an absent optional.
C3_OptionalPlainEquality ==
    (out.arity = 2 /\ out.op = "==") =>
        /\ (lhs.kind = "opt" /\ rhs.kind = "T") =>
              out.res = IF has_value(lhs.o)
                           THEN optional_type(value(lhs.o) = rhs.v)
                           ELSE nullopt
        /\ (lhs.kind = "T" /\ rhs.kind = "opt") =>
              out.res = IF has_value(rhs.o)
                           THEN optional_type(lhs.v = value(rhs.o))
                           ELSE nullopt

\* C4: a unary operator on an absent optional yields an absent result, and
\* on present(v) yields present(op v): v, -v and the bitwise complement of v
\* as a T for + - ~, and the bool (v = 0) for !.
C4_UnaryPropagation ==
    out.arity = 1 =>
        IF ~has_value(rhs.o)
            THEN out.res = nullopt
            ELSE /\ has_value(out.res)
                 /\ CASE out.op = "+" -> value(out.res) = value(rhs.o)
                      [] out.op = "-" ->
                            /\ InT(value(out.res))
                            /\ Congruent(value(out.res) + value(rhs.o), 0)
                      [] out.op = "~" -> value(out.res) + value(rhs.o) = -1
                      [] out.op = "!" -> value(out.res) = (value(rhs.o) = 0)

\* ! on present(0) has been evaluated to present(true)
C4_Witness ==
    /\ out.op = "!" /\ out.arity = 1
    /\ rhs = OptOperand(optional_type(0))
    /\ out.res = optional_type(TRUE)

----------------------------------------------------------------------------
(* Properties of column<T> *)

Content(c) == Buf(c).content

\* C5: at(i) on a column just constructed from [v0..v(n-1)] is present(vi)
\* for i < n; and whatever calls came before, at(i) returns the stored slot i
\* for i < size and an absent optional for every i >= size, the size_t value
\* of -1 included.  (Checked under Spec.)
C5_SafeRead ==
    /\ call.name = "column" =>
          \A i \in Indexes :
              at(Buf("A"), i) = IF i < Len(call.val)
                                   THEN optional_type(call.val[i + 1])
                                   ELSE nullopt
    /\ call.name = "at" =>
          call.ret = IF call.idx < Len(Content(call.col))
                        THEN Content(call.col)[call.idx + 1]
                        ELSE nullopt

\* at(size_t(-1)) on a non-empty column has returned an absent optional
C5_Witness ==
    /\ call.name = "at"
    /\ call.idx = ToSizeT(-1)
    /\ Len(Content("A")) = MaxLen
    /\ call.ret = nullopt

\* C6: set(i, v), set(i, nullopt) and reset(i) return (i < size); in range
\* they leave slot i present(v), respectively absent, and every other slot
\* and the size as they were; out of range they leave the column as it was.
\* (Checked under Spec.)
C6_IndexedWrite ==
    [][call'.name \in {"set", "set_nullopt", "reset"} =>
          LET c == call'.col
              i == call'.idx
              old == buf[data[c]].content
              new == buf'[data[c]].content
              inRange == i < Len(old)
              written == IF call'.name = "set" THEN optional_type(call'.val)
                                               ELSE nullopt
          IN  /\ call'.ret = inRange
              /\ data' = data
              /\ Len(new) = Len(old)
              /\ \A j \in 1 .. Len(old) :
                    new[j] = IF inRange /\ j = i + 1 THEN written ELSE old[j]
              /\ ~inRange => buf' = buf]_vars

\* set(0, v) has returned true on a column whose other slot is absent
C6_Witness ==
    /\ call.name = "set" /\ call.idx = 0 /\ call.ret = TRUE
    /\ Len(Content("A")) = 2
    /\ Content("A")[1] = optional_type(call.val)
    /\ Content("A")[2] = nullopt

\* C7: col = s leaves the size as it was and every slot present(s), the
\* slots that were absent included; col = nullopt leaves the size as it was
\* and every slot absent.  (Checked under Spec.)
C7_BroadcastAssignment ==
    [][call'.name \in {"assign", "assign_nullopt"} =>
          LET c == call'.col
              old == buf[data[c]].content
              new == buf'[data[c]].content
              written == IF call'.name = "assign" THEN optional_type(call'.val)
                                                  ELSE nullopt
          IN  /\ data' = data
              /\ Len(new) = Len(old)
              /\ \A j \in 1 .. Len(new) : new[j] = written]_vars

\* col = -3 has filled a column of MaxLen slots
C7_Witness ==
    /\ call.name = "assign" /\ call.val = -3
    /\ Len(Content("A")) = MaxLen
    /\ \A j \in 1 .. MaxLen : Content("A")[j] = optional_type(-3)

\* C10: the copy B of A starts with A's size and slots, and no later write
\* to B (set, reset, assignment through B[i], broadcast assignment, reserve,
\* shrink_to_fit, clear) changes the size or a slot of A, nor a write to A
\* the size or a slot of B.  (Checked under SpecCopy.)
C10_CopyIndependence ==
    [][/\ call'.name = "copy" =>
              /\ buf'[data'["B"]].content = buf[data["A"]].content
              /\ buf'[data'["A"]].content = buf[data["A"]].content
       /\ (Constructed("B") /\ call'.col = "B") =>
              buf'[data'["A"]].content = buf[data["A"]].content
       /\ (Constructed("B") /\ call'.col = "A") =>
              buf'[data'["B"]].content = buf[data["B"]].content]_vars

\* B[i] = v has made the copy differ from the column it was copied from
C10_Witness ==
    /\ Constructed("B")
    /\ call.name = "ref_assign" /\ call.col = "B"
    /\ Len(Content("A")) = Len(Content("B"))
    /\ Content("A") /= Content("B")

----------------------------------------------------------------------------
(* Properties of the element-wise column operators (under SpecOps) *)

\* v is the product of a and b converted to T
IsProduct(a, b, v) == InT(v) /\ Congruent(v, a * b)

\* C8: c * d of two columns of sizes n and m has size max(n, m); its element
\* i is absent for every i at or beyond the shorter column's size, and for i
\* below both sizes it is present exactly when both slots are, holding their
\* product.
C8_ColumnTimesColumn ==
    opres.name = "col*col" =>
        LET l == Content(opres.col)
            r == Content(opres.x)
            res == opres.res.content
        IN  /\ Len(res) = Max(Len(l), Len(r))
            /\ \A i \in 1 .. Len(res) :
                  IF i > Len(l) \/ i > Len(r)
                      THEN res[i] = nullopt
                      ELSE IF has_value(l[i]) /\ has_value(r[i])
                          THEN /\ has_value(res[i])
                               /\ IsProduct(value(l[i]), value(r[i]),
                                            value(res[i]))
                          ELSE res[i] = nullopt

\* a shorter non-empty column times a longer one: the result has the longer
\* size, a present first element and an absent last one
C8_Witness ==
    /\ opres.name = "col*col"
    /\ 0 < Len(Content(opres.col))
    /\ Len(Content(opres.col)) < Len(Content(opres.x))
    /\ Len(opres.res.content) = Len(Content(opres.x))
    /\ has_value(opres.res.content[1])
    /\ has_value(Content(opres.x)[Len(Content(opres.x))])
    /\ opres.res.content[Len(Content(opres.x))] = nullopt

\* v is what the unary operator op gives for slot e
ExpectedUnary(op, e, v) ==
    IF ~has_value(e) THEN v = nullopt
    ELSE /\ has_value(v)
         /\ CASE op = "+" -> value(v) = value(e)
              [] op = "-" -> InT(value(v)) /\ Congruent(value(v) + value(e), 0)
              [] op = "~" -> value(v) + value(e) = -1
              [] op = "!" -> value(v) = (value(e) = 0)

\* v is what slot e times the operand x gives
ExpectedTimes(x, e, v) ==
    IF has_value(e) /\ Present(x)
        THEN has_value(v) /\ IsProduct(value(e), Val(x), value(v))
        ELSE v = nullopt

\* C9: a unary operator on a column, and a column times a plain value, an
\* optional or nullopt on either side, return a column of the operand's size
\* whose element i is the algebra's result for slot i (absent throughout
\* when the other operand is nullopt or an absent optional), and leave the
\* operand column as it was.
C9_OneColumnOperators ==
    [][opres'.name \in {"unary", "col*x", "x*col"} =>
          LET operand == buf[data[opres'.col]].content
              res == opres'.res.content
          IN  /\ Len(res) = Len(operand)
              /\ \A i \in 1 .. Len(operand) :
                    IF opres'.name = "unary"
                        THEN ExpectedUnary(opres'.op, operand[i], res[i])
                        ELSE ExpectedTimes(opres'.x, operand[i], res[i])
              /\ buf' = buf
              /\ data' = data]_vars

\* a plain value times a column with a present and an absent slot
C9_Witness ==
    /\ opres.name = "x*col"
    /\ opres.x = PlainOperand(TMax)
    /\ Content(opres.col) = <<optional_type(-3), nullopt>>
    /\ opres.res.content = <<optional_type(WrapT(-3 * TMax)), nullopt>>

----------------------------------------------------------------------------
(* Properties of column_ref<T> (under SpecRef) *)

\* the optional slot i of column c denotes now: absent when i is out of range
Slot(c, i) == IF i < Len(Content(c)) THEN Content(c)[i + 1] ELSE nullopt

RefUses == {"ref_has_value", "ref_unary", "ref*x", "x*ref", "ref*ref"}

\* C11: every use of a reference r = col[i] (has_value, a unary operator, a
\* product with a plain value, an optional, nullopt or another reference)
\* gives what the algebra gives on the slot i of col as it is when r is
\* used, whatever was written to col since r was made; when i is out of
\* range at that moment r behaves as an absent optional.
C11_LiveRead ==
    call.name \in RefUses =>
        LET slot == Slot(call.col, call.idx) IN
        /\ call.col = ref.col /\ call.idx = ref.idx
        /\ CASE call.name = "ref_has_value" -> call.ret = has_value(slot)
             [] call.name = "ref_unary" ->
                    ExpectedUnary(call.val, slot, call.ret)
             [] call.name \in {"ref*x", "x*ref"} ->
                    ExpectedTimes(call.val, slot, call.ret)
             [] call.name = "ref*ref" ->
                    ExpectedTimes(OptOperand(Slot(call.col, call.val)), slot,
                                  call.ret)

\* a reference to slot 0 read as absent on a column emptied by clear
C11_Witness ==
    /\ call.name = "ref_has_value"
    /\ ref.idx = 0
    /\ Len(Content("A")) = 0 /\ Buf("A").cap > 0
    /\ call.ret = FALSE

\* C12: r = v through a reference r = col[i] does what col.set(i, v) does
\* and r = nullopt what col.reset(i) does, on the column as it is when the
\* assignment runs: in range only slot i changes, to present(v) or absent;
\* out of range (for instance after col was cleared) the size, the slots and
\* the capacity stay as they were.  The reference stays bound as it was.
C12_WriteThroughReference ==
    [][call'.name \in {"ref_write", "ref_write_nullopt"} =>
          LET c == call'.col
              i == call'.idx
              old == buf[data[c]]
              new == buf'[data[c]]
              inRange == i < Len(old.content)
              written == IF call'.name = "ref_write"
                            THEN optional_type(call'.val) ELSE nullopt
          IN  /\ c = ref.col /\ i = ref.idx /\ ref' = ref
              /\ data' = data
              /\ new.cap = old.cap
              /\ Len(new.content) = Len(old.content)
              /\ \A j \in 1 .. Len(old.content) :
                    new.content[j] = IF inRange /\ j = i + 1
                                        THEN written ELSE old.content[j]
              /\ ~inRange => buf' = buf]_vars

\* r = v through a reference to slot 0 of a column that has been emptied
C12_Witness ==
    /\ call.name = "ref_write"
    /\ ref.idx = 0
    /\ Len(Content("A")) = 0 /\ Buf("A").cap > 0

----------------------------------------------------------------------------
(* Capacity of column<T> (under Spec) *)

SizeChangers == {"clear"}
SizeKeepers ==
    {"set", "set_nullopt", "reset", "assign", "assign_nullopt", "reserve",
     "shrink_to_fit"}

\* C13: from construction on, through any sequence of set, reset, broadcast
\* assignment, reserve, shrink_to_fit and clear, size <= capacity holds;
\* reserve(k) leaves the capacity at least k and no smaller than it was and
\* changes neither the size nor a slot; shrink_to_fit changes neither the
\* size nor a slot; clear leaves size 0 and empty() true; set, reset,
\* broadcast assignment, reserve and shrink_to_fit never change the size.
C13_Capacity ==
    /\ [](vector_size(Buf("A")) <= column_capacity(Buf("A")))
    /\ [][LET old == buf[data[call'.col]]
              new == buf'[data[call'.col]]
          IN  /\ call'.name = "reserve" =>
                    /\ column_capacity(new) >= call'.idx
                    /\ column_capacity(new) >= column_capacity(old)
                    /\ new.content = old.content
              /\ call'.name = "shrink_to_fit" => new.content = old.content
              /\ call'.name \in SizeChangers =>
                    vector_size(new) = 0 /\ column_empty(new)
              /\ call'.name \in SizeKeepers =>
                    vector_size(new) = vector_size(old)]_vars

\* reserve(MaxLen + 1) has grown the capacity of a full column past its size
C13_Witness ==
    /\ call.name = "reserve" /\ call.idx = MaxLen + 1
    /\ vector_size(Buf("A")) = MaxLen
    /\ column_capacity(Buf("A")) = MaxLen + 1

====
